---- MODULE Spec2Model ----
(***************************************************************************)
(* The npminit wizard (src/main.go, src/unnamed/part_000) as a state       *)
(* machine.  The bubbletea runtime is the environment: it feeds Update one *)
(* message at a time (keys, ticks, results of commands), runs every        *)
(* returned command in its own goroutine and delivers the results in any   *)
(* order.  A command closure captures a copy of the Model taken when       *)
(* Update returned; the copy shares the backing array of `dependencies`    *)
(* with the live model until an append reallocates it.                     *)
(***************************************************************************)
EXTENDS Integers, Sequences, FiniteSets, TLC

(* ------------------------------ bounds -------------------------------- *)

\* Longest project name typed into the text input.
MaxNameLen == 1
\* Number of confirm keys accepted on the first page (setupProject calls).
MaxSetups == 2
\* Number of toggle keys accepted on the second page.
MaxToggles == 2
\* Number of up and down keys accepted on the second page.
MaxMoves == 1

(* --------------------------- program constants ------------------------ *)

Page1View == 0
Page2View == 1
Page3View == 2
Page4View == 3
Page5View == 4

\* The only printable character the environment types.
Chars == {"a"}

\* The three cancel bindings.
CancelKeys == {"esc", "ctrl+c", "ctrl+d"}

\* The three toggle bindings.
ToggleKeys == {"space", "left", "right"}

\* Dependency{name, selected, devDependency}; installing and installed are
\* Go zero values.
Dependency(n, sel, dev) ==
  [name |-> n, selected |-> sel, devDependency |-> dev,
   installing |-> FALSE, installed |-> FALSE]

\* initialModel().dependencies
SeedDependencies ==
  << Dependency("typescript", TRUE, TRUE),
     Dependency("react", TRUE, FALSE),
     Dependency("kysely", TRUE, FALSE),
     Dependency("esbuild", TRUE, TRUE),
     Dependency("tailwindcss", TRUE, TRUE),
     Dependency("nodemon", TRUE, TRUE),
     Dependency("dotenv", TRUE, TRUE) >>

\* ExtraFor with the last of react's records left out (mutant for C9).
ExtraForShort(dep) ==
  IF dep.name = "react"
  THEN << Dependency("@types/react", TRUE, TRUE),
          Dependency("@types/react-dom", TRUE, TRUE),
          Dependency("eslint-plugin-react", TRUE, TRUE),
          Dependency("@typescript-eslint/eslint-plugin", TRUE, TRUE) >>
  ELSE IF dep.name = "kysely"
  THEN << Dependency("@types/node", TRUE, TRUE) >>
  ELSE << >>

\* The records extraDependencies appends for one selected entry.
ExtraFor(dep) ==
  IF dep.name = "react"
  THEN << Dependency("@types/react", TRUE, TRUE),
          Dependency("@types/react-dom", TRUE, TRUE),
          Dependency("eslint-plugin-react", TRUE, TRUE),
          Dependency("@typescript-eslint/eslint-plugin", TRUE, TRUE),
          Dependency("@typescript-eslint/parser", TRUE, TRUE) >>
  ELSE IF dep.name = "kysely"
  THEN << Dependency("@types/node", TRUE, TRUE) >>
  ELSE << >>

\* The static file extraDependencies copies for one selected entry:
\* <<file name, embedded content>>, or << >> for none.
CopyFor(dep) ==
  IF dep.name = "typescript" THEN << "src/index.ts", "IndexTs" >>
  ELSE IF dep.name = "esbuild" THEN << "esbuild.js", "EsbuildJs" >>
  ELSE IF dep.name = "tailwindcss" THEN << "tailwind.config.js", "TailwindConfigJs" >>
  ELSE << >>

(* ------------------------------ paths --------------------------------- *)

\* os.Getwd()
Cwd == << "cwd" >>

\* path.Join(dir, name) for the names of the model: a path is the sequence of
\* its elements; the empty string joins to the directory itself.
PathJoin(dir, name) == dir \o name

\* The empty string of projectPath before setup.
NoPath == << >>

\* os.WriteFile and os.Open resolve a relative path against the working
\* directory.
Resolve(p) == IF p # << >> /\ p[1] = "cwd" THEN p ELSE Cwd \o p

(* ------------------------------ state --------------------------------- *)

VARIABLES
  view,          \* Model.view
  dependencies,  \* Model.dependencies (the live slice's elements)
  depCap,        \* cap(Model.dependencies)
  audit,         \* Model.audit
  projectPath,   \* Model.projectPath
  installCount,  \* Model.installCount
  cursor,        \* Model.cursor
  error,         \* Model.error
  textinput,     \* Model.textinput.Value(), a sequence of characters
  setups,        \* setupProject commands in flight
  extras,        \* extraDependencies commands in flight
  installs,      \* installDependency commands in flight
  audits,        \* runAudit commands in flight
  msgs,          \* messages of the other commands in flight
  dirs,          \* directories that exist
  files,         \* files written: absolute path -> content
  exitCode,      \* the process exit code, NotExited while it runs
  nSetups,       \* setupProject commands dispatched so far
  nToggles,      \* toggle keys handled so far
  nMoves         \* up and down keys handled so far

modelVars == << view, dependencies, depCap, audit, projectPath, installCount,
                cursor, error, textinput >>
taskVars == << setups, extras, installs, audits, msgs >>
fsVars == << dirs, files >>
vars == << view, dependencies, depCap, audit, projectPath, installCount,
           cursor, error, textinput, setups, extras, installs, audits, msgs,
           dirs, files, exitCode, nSetups, nToggles, nMoves >>

NotExited == -1

Running == exitCode = NotExited

\* The empty string as a text handed to json.Unmarshal: no JSON document.
EmptyText == [valid |-> FALSE, fields |-> {}]

\* The zero value of npmAuditJSON, reduced to the vulnerability counts.
ZeroAudit ==
  [Info |-> 0, Low |-> 0, Moderate |-> 0, High |-> 0, Critical |-> 0, Total |-> 0]

\* initialModel(), main() up to program.Run()
Init ==
  /\ view = Page1View
  /\ dependencies = SeedDependencies
  /\ depCap = Len(SeedDependencies)
  /\ audit = ZeroAudit
  /\ projectPath = NoPath
  /\ installCount = 0
  /\ cursor = 0
  /\ error = ""
  /\ textinput = << >>
  /\ setups = << >>
  /\ extras = << >>
  /\ installs = << >>
  /\ audits = << >>
  /\ msgs = << >>
  /\ dirs = {Cwd}
  /\ files = << >>
  /\ exitCode = NotExited
  /\ nSetups = 0
  /\ nToggles = 0
  /\ nMoves = 0

(* ----------------------------- helpers -------------------------------- *)

\* s without its i-th element.
RemoveAt(s, i) == SubSeq(s, 1, i - 1) \o SubSeq(s, i + 1, Len(s))

\* The command func() tea.Msg { return InstallAllMsg{} } in flight.
InstallAllCmd == [type |-> "InstallAllMsg", from |-> "Update"]

\* tea.Quit, returned by the branch `from` of Update, added to the commands in
\* flight.  Every QuitMsg ends the program the same way, so a second one from
\* the same branch is not told apart from the first.
AddQuit(ms, from) ==
  IF \E i \in 1..Len(ms) : ms[i] = [type |-> "QuitMsg", from |-> from]
  THEN ms
  ELSE Append(ms, [type |-> "QuitMsg", from |-> from])

\* os.WriteFile(p, content): the file at p now holds content.
WriteFile(fs, p, content) ==
  [q \in (DOMAIN fs) \cup {Resolve(p)} |->
     IF q = Resolve(p) THEN content ELSE fs[q]]

\* WriteFile applied to the first k of a list of <<path, content>> writes.
RECURSIVE WriteAll(_, _, _)
WriteAll(fs, ws, k) ==
  IF k = 0 THEN fs
  ELSE WriteFile(WriteAll(fs, ws, k - 1), ws[k][1], ws[k][2])

(* ------------------------- Update: key messages ----------------------- *)

\* The cancel branch recording the cancellation in m.error (mutant for C16).
KeyCancelSetsError ==
  /\ Running
  /\ \E k \in CancelKeys :
       /\ msgs' = AddQuit(msgs, "KeyMsg")
       /\ error' = "cancelled"
       /\ UNCHANGED << view, dependencies, depCap, audit, projectPath,
                       installCount, cursor, textinput, setups, extras,
                       installs, audits, fsVars, exitCode, nSetups, nToggles,
                       nMoves >>

\* case tea.KeyMsg, KeyEsc / KeyCtrlC / KeyCtrlD: return m, tea.Quit
KeyCancel ==
  /\ Running
  /\ \E k \in CancelKeys :
       /\ msgs' = AddQuit(msgs, "KeyMsg")
       /\ UNCHANGED << modelVars, setups, extras, installs, audits, fsVars,
                       exitCode, nSetups, nToggles, nMoves >>

\* Page1View, KeyEnter: return m, func() tea.Msg { return setupProject(&m) }
\* The closure's m is this call's copy of the model: the command sees the
\* text and the projectPath of now.
KeyEnterPage1 ==
  /\ Running
  /\ view = Page1View
  /\ nSetups < MaxSetups
  /\ setups' = Append(setups, [name |-> textinput, mPath |-> projectPath,
                               pc |-> "check", result |-> "none"])
  /\ nSetups' = nSetups + 1
  /\ UNCHANGED << modelVars, extras, installs, audits, msgs, fsVars,
                  exitCode, nToggles, nMoves >>

\* Page1View, any other key: m.textinput.Update(msg).  A printable key appends
\* its character, backspace deletes the last one.
KeyTextPage1 ==
  /\ Running
  /\ view = Page1View
  /\ \/ \E c \in Chars :
          /\ Len(textinput) < MaxNameLen
          /\ textinput' = Append(textinput, c)
     \/ /\ textinput # << >>
        /\ textinput' = SubSeq(textinput, 1, Len(textinput) - 1)
  /\ UNCHANGED << view, dependencies, depCap, audit, projectPath, installCount,
                  cursor, error, taskVars, fsVars, exitCode,
                  nSetups, nToggles, nMoves >>

\* KeyToggle that only ever clears the flag (mutant for C11).
KeyToggleClears ==
  /\ Running
  /\ view = Page2View
  /\ nToggles < MaxToggles
  /\ \E k \in ToggleKeys :
       dependencies' = [dependencies EXCEPT ![cursor + 1].selected = FALSE]
  /\ nToggles' = nToggles + 1
  /\ UNCHANGED << view, depCap, audit, projectPath, installCount, cursor,
                  error, textinput, taskVars, fsVars, exitCode,
                  nSetups, nMoves >>

\* Page2View, KeySpace / KeyLeft / KeyRight: flip selected at the cursor.
KeyToggle ==
  /\ Running
  /\ view = Page2View
  /\ nToggles < MaxToggles
  /\ \E k \in ToggleKeys :
       dependencies' =
         [dependencies EXCEPT ![cursor + 1].selected =
            IF dependencies[cursor + 1].selected THEN FALSE ELSE TRUE]
  /\ nToggles' = nToggles + 1
  /\ UNCHANGED << view, depCap, audit, projectPath, installCount, cursor,
                  error, textinput, taskVars, fsVars, exitCode,
                  nSetups, nMoves >>

\* Page2View, KeyUp: if m.cursor > 0 { m.cursor-- }
KeyUp ==
  /\ Running
  /\ view = Page2View
  /\ nMoves < MaxMoves
  /\ nMoves' = nMoves + 1
  /\ cursor' = IF cursor > 0 THEN cursor - 1 ELSE cursor
  /\ UNCHANGED << view, dependencies, depCap, audit, projectPath,
                  installCount, error, textinput, taskVars, fsVars,
                  exitCode, nSetups, nToggles >>

\* KeyDown without its bound check (mutant for C10).
KeyDownNoClamp ==
  /\ Running
  /\ view = Page2View
  /\ nMoves < MaxMoves
  /\ nMoves' = nMoves + 1
  /\ cursor' = cursor + 1
  /\ UNCHANGED << view, dependencies, depCap, audit, projectPath,
                  installCount, error, textinput, taskVars, fsVars,
                  exitCode, nSetups, nToggles >>

\* Page2View, KeyDown: if m.cursor < len(m.dependencies)-1 { m.cursor++ }
KeyDown ==
  /\ Running
  /\ view = Page2View
  /\ nMoves < MaxMoves
  /\ nMoves' = nMoves + 1
  /\ cursor' = IF cursor < Len(dependencies) - 1 THEN cursor + 1 ELSE cursor
  /\ UNCHANGED << view, dependencies, depCap, audit, projectPath,
                  installCount, error, textinput, taskVars, fsVars,
                  exitCode, nSetups, nToggles >>

\* Page2View, KeyEnter: m.view = Page3View;
\* return m, func() tea.Msg { return extraDependencies(&m) }
\* The closure's m.dependencies is the slice of now: its length, and the
\* backing array the live model goes on writing to until an append moves it.
KeyEnterPage2 ==
  /\ Running
  /\ view = Page2View
  /\ view' = Page3View
  /\ extras' = Append(extras, [mPath |-> projectPath, len |-> Len(dependencies),
                               live |-> TRUE, frozen |-> << >>, i |-> 1,
                               deps |-> << >>, result |-> "none"])
  /\ UNCHANGED << dependencies, depCap, audit, projectPath, installCount,
                  cursor, error, textinput, setups, installs,
                  audits, msgs, fsVars, exitCode, nSetups, nToggles, nMoves >>

\* A key no branch of Update handles (any key on pages 3 to 5, a printable
\* key on page 2): return m, nil
KeyIgnored ==
  /\ Running
  /\ view # Page1View
  /\ UNCHANGED vars

(* ---------------------- Update: command results ----------------------- *)

\* case ErrorMsg: m.error = msg.error.Error(); return m, tea.Quit
UpdateErrorMsg(e) ==
  /\ error' = e
  /\ msgs' = AddQuit(msgs, "ErrorMsg")
  /\ UNCHANGED << view, dependencies, depCap, audit, projectPath,
                  installCount, cursor, textinput >>

\* case SetupMessage: m.projectPath = msg.projectPath; m.view = Page2View
UpdateSetupMessage(p) ==
  /\ projectPath' = p
  /\ view' = Page2View
  /\ UNCHANGED << dependencies, depCap, audit, installCount, cursor, error,
                  textinput >>

\* The capacity append gives a slice that has to grow (the Go runtime doubles
\* a small slice unless more is needed).
GrowCap(cap, needed) == IF needed > 2 * cap THEN needed ELSE 2 * cap

\* case ExtraDepsMessage: m.dependencies = append(m.dependencies, ...);
\* return m, tea.Sequence(m.stopwatch.Start(), InstallAllMsg)
\* The stopwatch is no part of the state modelled; what is left of the
\* sequence is the command that sends InstallAllMsg.
UpdateExtraDepsMessage(deps) ==
  /\ dependencies' = dependencies \o deps
  /\ depCap' = IF Len(dependencies) + Len(deps) <= depCap
               THEN depCap
               ELSE GrowCap(depCap, Len(dependencies) + Len(deps))
  /\ msgs' = Append(msgs, InstallAllCmd)
  /\ UNCHANGED << view, audit, projectPath, installCount, cursor, error,
                  textinput >>

\* The first i with selected && !installed && !installing, 0 for none.
NextCandidate(deps) ==
  LET c == { i \in 1..Len(deps) :
               deps[i].selected /\ ~deps[i].installed /\ ~deps[i].installing }
  IN  IF c = {} THEN 0 ELSE CHOOSE i \in c : \A j \in c : i <= j

\* case InstallAllMsg: mark the first candidate installing and install it;
\* with no candidate m.view = Page4View and runAudit.
UpdateInstallAllMsg ==
  LET i == NextCandidate(dependencies) IN
  IF i # 0
  THEN /\ dependencies' = [dependencies EXCEPT ![i].installing = TRUE]
       /\ installs' = Append(installs, [index |-> i - 1, mPath |-> projectPath])
       /\ UNCHANGED << view, audits >>
  ELSE /\ view' = Page4View
       /\ audits' = Append(audits, [mPath |-> projectPath, ran |-> FALSE,
                                    exitOk |-> FALSE, stdout |-> EmptyText])
       /\ UNCHANGED << dependencies, installs >>

\* UpdateOnInstalledMsg without installCount++ (mutant for C5).
UpdateOnInstalledMsgNoCount(index) ==
  /\ dependencies' = [dependencies EXCEPT ![index + 1].installing = FALSE,
                                          ![index + 1].installed = TRUE]
  /\ msgs' = Append(msgs, InstallAllCmd)
  /\ UNCHANGED << view, depCap, audit, projectPath, installCount, cursor,
                  error, textinput >>

\* UpdateOnInstalledMsg that leaves installing set (mutant for C7).
UpdateOnInstalledMsgKeepsFlag(index) ==
  /\ dependencies' = [dependencies EXCEPT ![index + 1].installed = TRUE]
  /\ installCount' = installCount + 1
  /\ msgs' = Append(msgs, InstallAllCmd)
  /\ UNCHANGED << view, depCap, audit, projectPath, cursor, error, textinput >>

\* case OnInstalledMsg: installing = false, installed = true, installCount++;
\* return m, InstallAllMsg
UpdateOnInstalledMsg(index) ==
  /\ dependencies' = [dependencies EXCEPT ![index + 1].installing = FALSE,
                                          ![index + 1].installed = TRUE]
  /\ installCount' = installCount + 1
  /\ msgs' = Append(msgs, InstallAllCmd)
  /\ UNCHANGED << view, depCap, audit, projectPath, cursor, error, textinput >>

\* case AuditMsg: m.audit = msg.audit; m.view = Page5View;
\* return m, tea.Sequence(nil, m.stopwatch.Stop(), tea.Quit)
\* What is left of the sequence without the stopwatch is tea.Quit.
UpdateAuditMsg(a) ==
  /\ audit' = a
  /\ view' = Page5View
  /\ msgs' = AddQuit(msgs, "AuditMsg")
  /\ UNCHANGED << dependencies, depCap, projectPath, installCount, cursor,
                  error, textinput >>

(* --------------------------- the commands ----------------------------- *)

\* getProjectPath without the existence check (mutant for C13).
RunSetupCheckSkips ==
  /\ Running
  /\ \E t \in 1..Len(setups) :
       /\ setups[t].pc = "check"
       /\ setups' = [setups EXCEPT ![t].pc = "create"]
  /\ UNCHANGED << modelVars, extras, installs, audits, msgs, fsVars, exitCode,
                  nSetups, nToggles, nMoves >>

\* setupProject -> getProjectPath: the target is the working directory joined
\* with the name; an entry that exists there is an error, before anything is
\* created.
RunSetupCheck ==
  /\ Running
  /\ \E t \in 1..Len(setups) :
       /\ setups[t].pc = "check"
       /\ \/ /\ PathJoin(Cwd, setups[t].name) \in dirs
             /\ setups' = [setups EXCEPT ![t].pc = "done",
                                         ![t].result = "exists"]
          \/ /\ PathJoin(Cwd, setups[t].name) \notin dirs
             /\ setups' = [setups EXCEPT ![t].pc = "create"]
  /\ UNCHANGED << modelVars, extras, installs, audits, msgs, fsVars, exitCode,
                  nSetups, nToggles, nMoves >>

\* The four writes of setupProject, in order.  writeJson takes the new
\* projectPath; copyStaticFile joins the name to m.projectPath, the field of
\* the model the command captured.  Both copies carry EslintConfigJs.
SetupWrites(t) ==
  << << PathJoin(PathJoin(Cwd, t.name), << "package.json" >>), "packageJSON" >>,
     << PathJoin(PathJoin(Cwd, t.name), << "tsconfig.json" >>), "tsconfigJSON" >>,
     << PathJoin(t.mPath, << "eslintrc.cjs" >>), "EslintConfigJs" >>,
     << PathJoin(t.mPath, << "esbuild.js" >>), "EslintConfigJs" >> >>

\* The directories os.MkdirAll(path.Join(projectPath, "src")) creates.
SetupDirs(t) ==
  { PathJoin(Cwd, t.name), PathJoin(PathJoin(Cwd, t.name), << "src" >>) }

\* How many of the writes succeed, as the environment decides: the first
\* copyStaticFile fails after both writeJson calls, or no write fails.
WriteOutcomes(ws) == { 2, Len(ws) }

\* setupProject after the check: os.MkdirAll, then the writes.  MkdirAll may
\* fail; the writes succeed up to the first that fails; all four succeeding
\* gives SetupMessage.  Nothing between the check and the return is undone.
RunSetupCreate ==
  /\ Running
  /\ \E t \in 1..Len(setups) :
       /\ setups[t].pc = "create"
       /\ \/ /\ setups' = [setups EXCEPT ![t].pc = "done", ![t].result = "io"]
             /\ UNCHANGED << dirs, files >>
          \/ \E k \in WriteOutcomes(SetupWrites(setups[t])) :
               /\ dirs' = dirs \cup SetupDirs(setups[t])
               /\ files' = WriteAll(files, SetupWrites(setups[t]), k)
               /\ setups' = [setups EXCEPT
                    ![t].pc = "done",
                    ![t].result = IF k = Len(SetupWrites(setups[t]))
                                  THEN "ok" ELSE "io"]
  /\ UNCHANGED << modelVars, extras, installs, audits, msgs, exitCode,
                  nSetups, nToggles, nMoves >>

\* The elements an extraDependencies command ranges over: the first len
\* elements of the array it captured, which is the live one until an append
\* has moved the model to a new array.
ExtraSees(t) == IF t.live THEN dependencies ELSE t.frozen

\* extraDependencies, one iteration of its loop: an unselected entry is
\* skipped; a selected one has its static file copied (a failure ends the
\* command with an error) and its implied records appended to deps.
RunExtraStep ==
  /\ Running
  /\ \E t \in 1..Len(extras) :
       LET e == extras[t]
           dep == ExtraSees(e)[e.i]
       IN
       /\ e.result = "none"
       /\ e.i <= e.len
       /\ IF ~dep.selected
          THEN /\ extras' = [extras EXCEPT ![t].i = e.i + 1]
               /\ files' = files
          ELSE IF CopyFor(dep) # << >>
          THEN \/ /\ files' = WriteFile(files,
                                 PathJoin(e.mPath, << CopyFor(dep)[1] >>),
                                 CopyFor(dep)[2])
                  /\ extras' = [extras EXCEPT ![t].i = e.i + 1]
               \/ /\ files' = files
                  /\ extras' = [extras EXCEPT ![t].result = "io"]
          ELSE /\ extras' = [extras EXCEPT ![t].i = e.i + 1,
                                           ![t].deps = e.deps \o ExtraFor(dep)]
               /\ files' = files
  /\ UNCHANGED << modelVars, setups, installs, audits, msgs, dirs, exitCode,
                  nSetups, nToggles, nMoves >>

\* What npm audit --json may print: text that is no JSON document, or a JSON
\* document giving some of the vulnerability counts.
AuditTexts ==
  { [valid |-> FALSE, fields |-> {}],
    [valid |-> TRUE, fields |-> {}],
    [valid |-> TRUE, fields |-> { << "Moderate", 1 >>, << "Total", 1 >> }] }

\* json.Unmarshal(text, &audit) on a zero audit: an error for text that is no
\* document, else each count the document gives is set.
Unmarshal(text) ==
  [ok |-> text.valid,
   audit |-> IF text.valid
             THEN [k \in DOMAIN ZeroAudit |->
                     IF \E f \in text.fields : f[1] = k
                     THEN (CHOOSE f \in text.fields : f[1] = k)[2]
                     ELSE ZeroAudit[k]]
             ELSE ZeroAudit]

\* execOutput for a command that prints text and exits as exitOk says: on
\* success the text is the result and the ExecError is empty; on failure the
\* result is "" and the text is the ExecError's stdout.
execOutput(exitOk, text) ==
  IF exitOk
  THEN [data |-> text, failed |-> FALSE, stdout |-> EmptyText]
  ELSE [data |-> EmptyText, failed |-> TRUE, stdout |-> text]

\* runAudit that parses the result string on both paths (mutant for C12).
AuditResultParsesData(exitOk, stdout) ==
  LET r == execOutput(exitOk, stdout) IN
  IF r.failed
  THEN IF ~Unmarshal(r.data).ok
       THEN [result |-> "exec", audit |-> ZeroAudit]
       ELSE [result |-> "ok", audit |-> Unmarshal(r.data).audit]
  ELSE IF ~Unmarshal(r.data).ok
       THEN [result |-> "json", audit |-> ZeroAudit]
       ELSE [result |-> "ok", audit |-> Unmarshal(r.data).audit]

\* runAudit: when the command fails the ExecError's stdout is parsed, and the
\* command's error returned if that fails; when it succeeds its output is
\* parsed, and the parse error returned if that fails.
AuditResult(exitOk, stdout) ==
  LET r == execOutput(exitOk, stdout) IN
  IF r.failed
  THEN IF ~Unmarshal(r.stdout).ok
       THEN [result |-> "exec", audit |-> ZeroAudit]
       ELSE [result |-> "ok", audit |-> Unmarshal(r.stdout).audit]
  ELSE IF ~Unmarshal(r.data).ok
       THEN [result |-> "json", audit |-> ZeroAudit]
       ELSE [result |-> "ok", audit |-> Unmarshal(r.data).audit]

\* runAudit up to the return of execOutput(npm audit --json): the command has
\* exited, successfully or not, and has printed some text.
RunAudit ==
  /\ Running
  /\ \E t \in 1..Len(audits) :
       /\ ~audits[t].ran
       /\ \E exitOk \in BOOLEAN, stdout \in AuditTexts :
            audits' = [audits EXCEPT ![t].ran = TRUE, ![t].exitOk = exitOk,
                                     ![t].stdout = stdout]
  /\ UNCHANGED << modelVars, setups, extras, installs, msgs, fsVars, exitCode,
                  nSetups, nToggles, nMoves >>

(* --------------------- the event loop: deliveries --------------------- *)

\* The message a failed command returns: ErrorMsg{error}.Error()
ErrorText(result) ==
  IF result = "exists" THEN "Unable to create project: directory already exists."
  ELSE "error"

\* A finished setupProject delivers SetupMessage{projectPath}.
DeliverSetupMessage ==
  /\ Running
  /\ \E t \in 1..Len(setups) :
       /\ setups[t].result = "ok"
       /\ UpdateSetupMessage(PathJoin(Cwd, setups[t].name))
       /\ setups' = RemoveAt(setups, t)
  /\ UNCHANGED << extras, installs, audits, msgs, fsVars, exitCode, nSetups,
                  nToggles, nMoves >>

\* A failed setupProject delivers ErrorMsg.
DeliverSetupError ==
  /\ Running
  /\ \E t \in 1..Len(setups) :
       /\ setups[t].result \in {"exists", "io"}
       /\ UpdateErrorMsg(ErrorText(setups[t].result))
       /\ setups' = RemoveAt(setups, t)
  /\ UNCHANGED << extras, installs, audits, fsVars, exitCode, nSetups, nToggles, nMoves >>

\* The extraDependencies commands still in flight after an append: when the
\* append moved the model to a new array, each command that shared the old
\* one keeps reading it as the append left it.
AfterAppend(es, moved) ==
  [t \in 1..Len(es) |->
     IF moved /\ es[t].live
     THEN [es[t] EXCEPT !.live = FALSE, !.frozen = dependencies]
     ELSE es[t]]

\* extraDependencies, its loop done, returns ExtraDepsMessage{deps}, which is
\* delivered.
DeliverExtraDepsMessage ==
  /\ Running
  /\ \E t \in 1..Len(extras) :
       /\ extras[t].result = "none"
       /\ extras[t].i > extras[t].len
       /\ UpdateExtraDepsMessage(extras[t].deps)
       /\ extras' = AfterAppend(RemoveAt(extras, t), depCap' # depCap)
  /\ UNCHANGED << setups, installs, audits, fsVars, exitCode, nSetups, nToggles, nMoves >>

\* A failed extraDependencies delivers ErrorMsg.
DeliverExtraError ==
  /\ Running
  /\ \E t \in 1..Len(extras) :
       /\ extras[t].result = "io"
       /\ UpdateErrorMsg(ErrorText(extras[t].result))
       /\ extras' = RemoveAt(extras, t)
  /\ UNCHANGED << setups, installs, audits, fsVars, exitCode, nSetups, nToggles, nMoves >>

\* The command func() tea.Msg { return InstallAllMsg{} } delivers its message.
DeliverInstallAllMsg ==
  /\ Running
  /\ \E c \in 1..Len(msgs) :
       /\ msgs[c] = InstallAllCmd
       /\ UpdateInstallAllMsg
       /\ msgs' = RemoveAt(msgs, c)
  /\ UNCHANGED << depCap, audit, projectPath, installCount, cursor, error,
                  textinput, setups, extras, fsVars, exitCode, nSetups,
                  nToggles, nMoves >>

\* installDependency: execOutput(npm install ...) succeeds and
\* OnInstalledMsg{index} is delivered.  Nothing of the model sees the command
\* finish before its message is taken.
DeliverOnInstalledMsg ==
  /\ Running
  /\ \E t \in 1..Len(installs) :
       /\ UpdateOnInstalledMsg(installs[t].index)
       /\ installs' = RemoveAt(installs, t)
  /\ UNCHANGED << setups, extras, audits, fsVars, exitCode, nSetups, nToggles, nMoves >>

\* installDependency: execOutput fails and ErrorMsg is delivered.
DeliverInstallError ==
  /\ Running
  /\ \E t \in 1..Len(installs) :
       /\ UpdateErrorMsg(ErrorText("exec"))
       /\ installs' = RemoveAt(installs, t)
  /\ UNCHANGED << setups, extras, audits, fsVars, exitCode, nSetups, nToggles, nMoves >>

\* runAudit returns AuditMsg{audit}, which is delivered.
DeliverAuditMsg ==
  /\ Running
  /\ \E t \in 1..Len(audits) :
       /\ audits[t].ran
       /\ AuditResult(audits[t].exitOk, audits[t].stdout).result = "ok"
       /\ UpdateAuditMsg(AuditResult(audits[t].exitOk, audits[t].stdout).audit)
       /\ audits' = RemoveAt(audits, t)
  /\ UNCHANGED << setups, extras, installs, fsVars, exitCode, nSetups, nToggles, nMoves >>

\* runAudit returns ErrorMsg, which is delivered.
DeliverAuditError ==
  /\ Running
  /\ \E t \in 1..Len(audits) :
       /\ audits[t].ran
       /\ AuditResult(audits[t].exitOk, audits[t].stdout).result # "ok"
       /\ UpdateErrorMsg(ErrorText(AuditResult(audits[t].exitOk,
                                               audits[t].stdout).result))
       /\ audits' = RemoveAt(audits, t)
  /\ UNCHANGED << setups, extras, installs, fsVars, exitCode, nSetups, nToggles, nMoves >>

\* default: a tick of the spinner or a message of the stopwatch goes to
\* m.spinner.Update and m.stopwatch.Update; no field modelled here changes.
Tick ==
  /\ Running
  /\ UNCHANGED vars

\* QuitMsg ends the event loop: program.Run() returns a nil error and main
\* returns, which is exit code 0.
DeliverQuit ==
  /\ Running
  /\ \E c \in 1..Len(msgs) : msgs[c].type = "QuitMsg"
  /\ exitCode' = 0
  /\ UNCHANGED << modelVars, taskVars, fsVars, nSetups, nToggles, nMoves >>

\* program.Run() returns an error (the terminal cannot be opened):
\* fmt.Println(err); os.Exit(1)
RunFails ==
  /\ Running
  /\ view = Page1View /\ textinput = << >> /\ nSetups = 0 /\ msgs = << >>
  /\ exitCode' = 1
  /\ UNCHANGED << modelVars, taskVars, fsVars, nSetups, nToggles, nMoves >>

(* --------------------------- specification ---------------------------- *)

Next ==
  \/ KeyCancel
  \/ KeyEnterPage1
  \/ KeyTextPage1
  \/ KeyToggle
  \/ KeyUp
  \/ KeyDown
  \/ KeyEnterPage2
  \/ KeyIgnored
  \/ RunSetupCheck
  \/ RunSetupCreate
  \/ RunExtraStep
  \/ RunAudit
  \/ DeliverSetupMessage
  \/ DeliverSetupError
  \/ DeliverExtraDepsMessage
  \/ DeliverExtraError
  \/ DeliverInstallAllMsg
  \/ DeliverOnInstalledMsg
  \/ DeliverInstallError
  \/ DeliverAuditMsg
  \/ DeliverAuditError
  \/ Tick
  \/ DeliverQuit
  \/ RunFails

Spec == Init /\ [][Next]_vars

(* ---------------- the second page, for every selection ---------------- *)

\* The project name of the run the second-page states below come from.
SelectName == << "a" >>

\* The seed list with exactly the entries of sel (indices) selected.
SeedsSelected(sel) ==
  [i \in 1..Len(SeedDependencies) |->
     [SeedDependencies[i] EXCEPT !.selected = (i \in sel)]]

\* The states of the second page after one setupProject has succeeded for
\* SelectName and the cursor and toggle keys have produced some selection and
\* some cursor position: every selection and every position, which the keys
\* counted by nToggles and nMoves reach only some of.
InitSelect ==
  /\ view = Page2View
  /\ \E sel \in SUBSET (1..Len(SeedDependencies)) :
       dependencies = SeedsSelected(sel)
  /\ depCap = Len(SeedDependencies)
  /\ audit = ZeroAudit
  /\ projectPath = PathJoin(Cwd, SelectName)
  /\ installCount = 0
  /\ cursor \in 0..(Len(SeedDependencies) - 1)
  /\ error = ""
  /\ textinput = SelectName
  /\ setups = << >>
  /\ extras = << >>
  /\ installs = << >>
  /\ audits = << >>
  /\ msgs = << >>
  /\ dirs = {Cwd} \cup SetupDirs([name |-> SelectName])
  /\ files = WriteAll(<< >>, SetupWrites([name |-> SelectName, mPath |-> NoPath]),
                      Len(SetupWrites([name |-> SelectName, mPath |-> NoPath])))
  /\ exitCode = NotExited
  /\ nSetups = 1
  /\ nToggles = 0
  /\ nMoves = 0

NextSelect ==
  \/ KeyCancel
  \/ KeyToggle
  \/ KeyUp
  \/ KeyDown
  \/ KeyEnterPage2
  \/ KeyIgnored
  \/ RunExtraStep
  \/ RunAudit
  \/ DeliverExtraDepsMessage
  \/ DeliverExtraError
  \/ DeliverInstallAllMsg
  \/ DeliverOnInstalledMsg
  \/ DeliverInstallError
  \/ DeliverAuditMsg
  \/ DeliverAuditError
  \/ Tick
  \/ DeliverQuit

SpecSelect == InitSelect /\ [][NextSelect]_vars

(* ----------------------------- fair runs ------------------------------ *)

\* The runtime runs every command to its end in a goroutine of its own and
\* hands every message a command returns to Update: a command in flight
\* eventually takes its next step, and its message, whichever of the two it
\* returns, is eventually applied.  Keys are the user's and are not forced.
Fairness ==
  /\ WF_vars(RunSetupCheck)
  /\ WF_vars(RunSetupCreate)
  /\ WF_vars(DeliverSetupMessage \/ DeliverSetupError)
  /\ WF_vars(RunExtraStep)
  /\ WF_vars(DeliverExtraDepsMessage \/ DeliverExtraError)
  /\ WF_vars(DeliverInstallAllMsg)
  /\ WF_vars(DeliverOnInstalledMsg \/ DeliverInstallError)
  /\ WF_vars(RunAudit)
  /\ WF_vars(DeliverAuditMsg \/ DeliverAuditError)
  /\ WF_vars(DeliverQuit)

SpecLive == Init /\ [][Next]_vars /\ Fairness

SpecSelectLive == InitSelect /\ [][NextSelect]_vars /\ Fairness

(* ------------------------------ claims -------------------------------- *)

\* The entries with installing = true.
Installing == { i \in 1..Len(dependencies) : dependencies[i].installing }

\* The entries with installed = true.
Installed == { i \in 1..Len(dependencies) : dependencies[i].installed }

\* The entries with selected = true.
Selected == { i \in 1..Len(dependencies) : dependencies[i].selected }

\* The number of setupProject, extraDependencies, installDependency and
\* runAudit commands dispatched whose message Update has not been given yet.
InFlight == Len(setups) + Len(extras) + Len(installs) + Len(audits)

\* C1: in every reachable state at most one entry of dependencies has
\* installing = true.
C1_AtMostOneInstalling == Cardinality(Installing) <= 1

\* C2: no two asynchronous tasks (setupProject, extraDependencies,
\* installDependency, runAudit) are in flight at the same time.
C2_OneTaskInFlight == InFlight <= 1

\* C3: once the error field is non-empty, no step changes the page,
\* projectPath, the dependency list or its flags, the cursor or installCount.
C3_ErrorFreezes ==
  [][error # "" =>
       UNCHANGED << view, projectPath, dependencies, cursor, installCount >>]_vars

\* A tea.Quit returned by the branch `from` of Update is or was in flight.
QuitFrom(from) ==
  \E c \in 1..Len(msgs) : msgs[c] = [type |-> "QuitMsg", from |-> from]

\* C4: the exit code is 0 when the run ends by the Complete page or by the
\* cancel key, and 1 when it ends because of a fatal error (an ErrorMsg was
\* applied and no cancel key was pressed).
C4_ExitCode ==
  exitCode # NotExited =>
    /\ (QuitFrom("ErrorMsg") /\ ~QuitFrom("KeyMsg")) => exitCode = 1
    /\ (~QuitFrom("ErrorMsg") /\ (QuitFrom("KeyMsg") \/ QuitFrom("AuditMsg")))
          => exitCode = 0

\* C5: installCount equals the number of entries with installed = true.
C5_CountIsInstalled == installCount = Cardinality(Installed)

\* C5 witness: some installs have been counted while others are still to come.
C5_Witness ==
  /\ installCount >= 2
  /\ Installing # {}
  /\ Cardinality(Installed) < Cardinality(Selected)

\* C6: every entry with installing = true has selected = true and
\* installed = false.
C6_InstallingSelected ==
  \A i \in Installing : dependencies[i].selected /\ ~dependencies[i].installed

\* An install call for entry i is outstanding: dispatched, and its message
\* (OnInstalledMsg or ErrorMsg) not yet applied.
Outstanding(i) == \E t \in 1..Len(installs) : installs[t].index = i - 1

\* C7 as stated: an entry's installing flag is true exactly while an install
\* call for it is outstanding, whether the call succeeds or fails.
C7_InstallingIffOutstanding ==
  \A i \in 1..Len(dependencies) : dependencies[i].installing <=> Outstanding(i)

\* C7 as amended: installing is true from the dispatch of the entry's install
\* call on; while no ErrorMsg has been applied it is true exactly while the
\* call is outstanding (OnInstalledMsg clears it); a call that ends without
\* installing the entry (ErrorMsg) leaves the flag true.
C7_InstallingUntilInstalled ==
  /\ [](\A i \in 1..Len(dependencies) :
          /\ Outstanding(i) => dependencies[i].installing
          /\ (dependencies[i].installing /\ ~Outstanding(i)) => error # "")
  /\ [][\A i \in 1..Len(dependencies) :
          (Outstanding(i) /\ ~Outstanding(i)' /\ ~dependencies'[i].installed)
            => (dependencies'[i].installing /\ error' # "")]_vars

\* C7 witness: an install call has failed and its entry is still installing.
C7_Witness ==
  /\ error # ""
  /\ \E i \in 1..Len(dependencies) :
       dependencies[i].installing /\ ~Outstanding(i)

\* C8: when the page changes from Installing to AuditPending with no error,
\* installCount is the number of selected seed entries plus the number of
\* appended entries, and every selected entry is installed.
C8_CountAtAudit ==
  [][(view = Page3View /\ view' = Page4View /\ error' = "") =>
       /\ installCount' =
            Cardinality({ i \in 1..Len(SeedDependencies) : dependencies'[i].selected })
            + (Len(dependencies') - Len(SeedDependencies))
       /\ \A i \in 1..Len(dependencies') :
            dependencies'[i].selected => dependencies'[i].installed]_vars

\* Some selected entry is named n.
SelectedNamed(n) ==
  \E i \in 1..Len(dependencies) :
    dependencies[i].name = n /\ dependencies[i].selected

\* The step applies an ExtraDepsMessage: an extraDependencies command is gone
\* and the command sending InstallAllMsg is new.
AppliesExtraDeps ==
  /\ Len(extras') < Len(extras)
  /\ Len(msgs') > Len(msgs)
  /\ msgs'[Len(msgs')] = InstallAllCmd

\* C9: expansion appends exactly 5 records when react is selected plus exactly
\* 1 when kysely is selected and none for any other or any unselected entry;
\* the appended records are selected (and neither installing nor installed)
\* and follow the existing entries, which are neither reordered nor removed.
C9_Expansion ==
  [][AppliesExtraDeps =>
       /\ Len(dependencies') = Len(dependencies)
            + (IF SelectedNamed("react") THEN 5 ELSE 0)
            + (IF SelectedNamed("kysely") THEN 1 ELSE 0)
       /\ SubSeq(dependencies', 1, Len(dependencies)) = dependencies
       /\ \A i \in (Len(dependencies) + 1)..Len(dependencies') :
            /\ dependencies'[i].selected
            /\ ~dependencies'[i].installing
            /\ ~dependencies'[i].installed]_vars

\* C9 witness: exactly typescript and react were selected and the list has
\* grown by exactly 5.
C9_Witness ==
  /\ Len(dependencies) = Len(SeedDependencies) + 5
  /\ { i \in 1..Len(SeedDependencies) : dependencies[i].selected } = {1, 2}
  /\ extras = << >>

\* C10: the cursor stays within [0, len(dependencies)-1], and a step moves it
\* by at most one, never past either end (no wraparound).
C10_CursorInRange ==
  /\ [](cursor \in 0..(Len(dependencies) - 1))
  /\ [][\/ cursor' = cursor
        \/ cursor' = cursor + 1 /\ cursor < Len(dependencies) - 1
        \/ cursor' = cursor - 1 /\ cursor > 0]_vars

\* C10 witness: an up or down key has been handled and the cursor is at the
\* last index.
C10_Witness ==
  /\ nMoves > 0
  /\ cursor = Len(dependencies) - 1

\* The seed entries with selected = false.
UnselectedSeeds ==
  { i \in 1..Len(SeedDependencies) : ~dependencies[i].selected }

\* C11: every step that handles a toggle key flips the selected flag of the
\* entry at the cursor and changes nothing else of the model, and flipping the
\* same entry again gives back the list of before; no other step changes a
\* selected flag.  So the flags are the initial ones (all set) XOR the parity
\* of the toggles: the number of cleared seed flags has the parity of the
\* number of toggles, and does not exceed it.
C11_ToggleParity ==
  /\ [](/\ Cardinality(UnselectedSeeds) % 2 = nToggles % 2
        /\ Cardinality(UnselectedSeeds) <= nToggles)
  /\ [][IF nToggles' # nToggles
        THEN /\ dependencies' =
                  [dependencies EXCEPT ![cursor + 1].selected = ~@]
             /\ [dependencies' EXCEPT ![cursor + 1].selected = ~@] = dependencies
             /\ UNCHANGED << view, depCap, audit, projectPath, installCount,
                             cursor, error, textinput >>
        ELSE \A i \in 1..Len(dependencies) :
               dependencies'[i].selected = dependencies[i].selected]_vars

\* C11 witness: two toggles were applied and every seed flag is as it was at
\* the start.
C11_Witness ==
  /\ nToggles = 2
  /\ UnselectedSeeds = {}

\* C12: a finished audit command whose text parses gives the same AuditMsg
\* report on the success path and on the failure path, and the report is what
\* Update stores; ErrorMsg is the result only when the text does not parse.
C12_AuditPathIndependent ==
  /\ [](\A t \in 1..Len(audits) :
          audits[t].ran =>
            IF Unmarshal(audits[t].stdout).ok
            THEN /\ AuditResult(TRUE, audits[t].stdout).result = "ok"
                 /\ AuditResult(FALSE, audits[t].stdout)
                      = AuditResult(TRUE, audits[t].stdout)
                 /\ AuditResult(TRUE, audits[t].stdout).audit
                      = Unmarshal(audits[t].stdout).audit
            ELSE /\ AuditResult(TRUE, audits[t].stdout).result # "ok"
                 /\ AuditResult(FALSE, audits[t].stdout).result # "ok")
  /\ [][\A t \in 1..Len(audits) :
          (audits[t].ran /\ audits' = RemoveAt(audits, t)) =>
            IF Unmarshal(audits[t].stdout).ok
            THEN /\ audit' = Unmarshal(audits[t].stdout).audit
                 /\ view' = Page5View
                 /\ error' = error
            ELSE /\ error' # ""
                 /\ audit' = audit
                 /\ view' = view]_vars

\* C12 witness: an audit command has exited with a failure after printing a
\* report with vulnerabilities, and its message is about to be applied.
C12_Witness ==
  \E t \in 1..Len(audits) :
    /\ audits[t].ran
    /\ ~audits[t].exitOk
    /\ Unmarshal(audits[t].stdout).ok
    /\ Unmarshal(audits[t].stdout).audit.Total = 1

\* The step leaves the setupProject commands in flight in their places (none
\* is delivered).
SetupsStay == Len(setups') >= Len(setups)

\* C13: a setupProject that finds an entry at its target path (the working
\* directory joined with the name) ends with the "already exists" error, which
\* Update is given as ErrorMsg; neither that step nor any later step of the
\* command creates a directory or writes a file.
C13_ConflictWritesNothing ==
  /\ [](\A t \in 1..Len(setups) :
          setups[t].result = "exists" => setups[t].pc = "done")
  /\ [][\A t \in 1..Len(setups) :
          /\ (/\ SetupsStay
              /\ setups[t].pc = "check"
              /\ setups'[t].pc # "check"
              /\ PathJoin(Cwd, setups[t].name) \in dirs)
               => (setups'[t].result = "exists" /\ UNCHANGED << dirs, files >>)
          /\ (SetupsStay /\ setups[t].result = "exists")
               => setups'[t] = setups[t]
          /\ (setups[t].result = "exists" /\ setups' = RemoveAt(setups, t))
               => (/\ error' = ErrorText("exists")
                   /\ UNCHANGED << dirs, files >>)]_vars

\* C13 witness: a setupProject for the name "a" has found the directory that
\* an earlier one created, and has ended with the error.
C13_Witness ==
  \E t \in 1..Len(setups) :
    /\ setups[t].result = "exists"
    /\ setups[t].name = << "a" >>
    /\ PathJoin(Cwd, << "a" >>) \in dirs

\* The path p lies inside the directory dir.
IsUnder(p, dir) == Len(p) > Len(dir) /\ SubSeq(p, 1, Len(dir)) = dir

\* C14: every file a successful setupProject writes lies inside the project
\* directory it created, the one its SetupMessage carries.
C14_WritesInsideProject ==
  [][\A t \in 1..Len(setups) :
       (SetupsStay /\ setups[t].pc = "create" /\ setups'[t].result = "ok") =>
         \A p \in DOMAIN files' :
           (p \notin DOMAIN files \/ files'[p] # files[p])
             => IsUnder(p, PathJoin(Cwd, setups[t].name))]_vars

\* An install call has ended without installing its entry: the entry is
\* left installing with no call outstanding.
InstallFailed ==
  \E i \in 1..Len(dependencies) : dependencies[i].installing /\ ~Outstanding(i)

\* C15: once an install call has failed, the error is set (ErrorMsg was
\* applied) and from then on no install command is started, no entry becomes
\* installed and no audit is dispatched.
C15_NoInstallAfterFailure ==
  /\ [](InstallFailed => error # "")
  /\ [][InstallFailed =>
          /\ Len(installs') <= Len(installs)
          /\ Len(audits') <= Len(audits)
          /\ \A i \in 1..Len(dependencies) :
               /\ dependencies'[i].installed = dependencies[i].installed
               /\ dependencies'[i].installing = dependencies[i].installing]_vars

\* C16: a cancel key is handled in every state of the running program, and the
\* step that handles it requests the exit (tea.Quit), changes no field of the
\* model, dispatches no task and touches no file.
C16_CancelFrame ==
  /\ [](Running => ENABLED KeyCancel)
  /\ [][(~QuitFrom("KeyMsg") /\ QuitFrom("KeyMsg")') =>
          UNCHANGED << view, dependencies, depCap, audit, projectPath,
                       installCount, cursor, error, textinput, setups, extras,
                       installs, audits, dirs, files, exitCode >>]_vars

\* C16 witness: the cancel key was handled on the Installing page while an
\* install call was outstanding.
C16_Witness ==
  /\ QuitFrom("KeyMsg")
  /\ view = Page3View
  /\ installs # << >>

\* C17: the install call started by a step is for the lowest-index entry that
\* is selected, not installed and not installing, and every selected entry
\* before it is installed already (its call was started and has completed);
\* an unselected entry is never installed.
C17_InstallOrder ==
  /\ [](\A i \in Installed : dependencies[i].selected)
  /\ [][\A j \in 1..Len(dependencies) :
          (~Outstanding(j) /\ Outstanding(j)') =>
            /\ j = NextCandidate(dependencies)
            /\ dependencies[j].selected
            /\ \A i \in 1..(j - 1) :
                 dependencies[i].selected => dependencies[i].installed]_vars

\* C18: from the Installing page, unless a command fails (error set) or a
\* cancel key is pressed, the run reaches the Complete page; on the way the
\* page goes from Installing to AuditPending to Complete and nowhere else, the
\* audit is dispatched once, by the step that leaves the Installing page, and
\* the step that enters the Complete page stores the audit report.
C18_ReachesComplete ==
  /\ (view = Page3View) ~>
       (view = Page5View \/ error # "" \/ QuitFrom("KeyMsg")
          \/ exitCode # NotExited)
  /\ [][/\ Len(audits') > Len(audits) =>
             (view = Page3View /\ view' = Page4View /\ Len(audits) = 0)
        /\ view = Page3View => view' \in {Page3View, Page4View}
        /\ view = Page4View => view' \in {Page4View, Page5View}
        /\ view = Page5View => view' = Page5View
        /\ (view # Page5View /\ view' = Page5View) =>
             \E t \in 1..Len(audits) :
               /\ audits[t].ran
               /\ audit' = Unmarshal(audits[t].stdout).audit]_vars

\* C19: no step moves the page backwards (the page values are ordered as the
\* pages are), and projectPath, once set, is not changed.
C19_PageNeverBack ==
  [][/\ view' >= view
     /\ projectPath # NoPath => projectPath' = projectPath]_vars

\* C20: whenever projectPath is set, it is the working directory joined with
\* the text of the input, the name the header shows.
C20_HeaderIsProjectName ==
  projectPath # NoPath => projectPath = PathJoin(Cwd, textinput)

====
